---- MODULE Spec2Model ----
(***************************************************************************)
(* Model of the audit command of secrethub-cli (src/unnamed/part_000):     *)
(* the column formatter (columnWidths, formatRow), the paginated writer    *)
(* around the terminal pager, and the event loop of AuditCommand.run.      *)
(*                                                                         *)
(* Strings are sequences of one-character strings.  Go's integer division  *)
(* truncates toward zero; TLA+'s \div floors, so GoDiv / GoMod are used    *)
(* wherever the source divides.                                            *)
(***************************************************************************)
EXTENDS Integers, Sequences, FiniteSets, TLC

VARIABLES
    tableWidth,            \* columnFormatter.tableWidth
    columns,               \* columnFormatter.columns, as the sequence of maxWidth
    computedColumnWidths,  \* columnFormatter.computedColumnWidths (<<>> is nil)
    widthsRet,             \* what the last columnWidths() call returned (<<>> none)
    fmtRow,                \* the row handed to the last formatRow call
    fmtOut,                \* its outcome: [status, out]
    fields,                \* jsonFormatter.fields (<<>> when there is none)
    loop,                  \* columnWidths in steps: where it is, and its locals
                           \*   res, widthPerColumn, and the passes made
    viewer,                \* the pager process: "none", "running", "exited"
    watcher,               \* the goroutine around cmd.Wait(): "none", "waiting",
                           \*   "woken" (Wait returned), "finished" (signal sent)
    doneChan,              \* number of signals buffered in the done channel
    closed,                \* paginatedWriter.closed
    writerClosed,          \* the stdin pipe of the pager has been closed
    pipeWrites,            \* the calls of p.writer.Write: [data, ok] each
    closePc,               \* Close(): "idle", "recv" (at <-p.done), "returned"
    closeRet,              \* what Close() returned: "none", "nil", "err"
    closeCalls,            \* number of Close() calls
    lastIsClosed,          \* IsClosed(): calls so far, and of the last call whether
                           \*   the signal had been published and what it returned
    pubAt,                 \* the events pulled and rows written when the watcher
                           \*   sent the signal (NotPublished before)
    pc,                    \* where AuditCommand.run is
    path,                  \* cmd.path, by what it parses as
    json,                  \* cmd.json
    perPage,               \* cmd.perPage
    table,                 \* the audit table: "none", "repo", "secret"
    pos,                   \* events pulled from the iterator so far
    iterEnd,               \* how the iterator ended: "none", "done", "err"
    deferred,              \* the defer of paginatedWriter.Close() is in place
    runRet,                \* what run returned: "none", "nil", an error, "panic"
    calls                  \* clients created, remote calls made, pager started

fvars == <<tableWidth, columns, computedColumnWidths, widthsRet, fmtRow, fmtOut,
           fields, loop>>

svars == <<viewer, watcher, doneChan, closed, writerClosed, pipeWrites, closePc,
           closeRet, closeCalls, lastIsClosed, pubAt>>

rvars == <<pc, path, json, perPage, table, pos, iterEnd, deferred, runRet, calls>>

vars == <<fvars, svars, rvars>>

----------------------------------------------------------------------------
(* Bounds *)

MaxCols == 3          \* columns of a formatter in SpecWidths
MaxTableWidth == 14   \* table widths 0..MaxTableWidth in SpecWidths
MaxCap == 4           \* maxWidth values -1..MaxCap in SpecWidths
MaxFormatWidth == 6   \* table widths 0..MaxFormatWidth in SpecFormat
MaxCellLen == 3       \* characters per cell in SpecFormat
MaxWrites == 3        \* Write calls of the client in SpecSink
MaxPolls == 3         \* IsClosed calls of the client in SpecSink
MaxEvents == 3        \* events the iterator hands out in SpecRun
MaxFields == 2        \* field names of a jsonFormatter in SpecJson

FormatCols == {1, 2}              \* column counts of a formatter in SpecFormat
FormatCaps == {0, 1}              \* maxWidth values of a formatter in SpecFormat
Alphabet == {"a", "b", " "}       \* cell characters; the blank is a legal one
FieldNames == {"AUTHOR", "EVENT"} \* field names of a jsonFormatter in SpecJson
JsonValues == {<<>>, <<"a">>}     \* row elements in SpecJson

----------------------------------------------------------------------------
(* Arithmetic and sequence helpers *)

Abs(x) == IF x < 0 THEN -x ELSE x

\* Go's a / b on ints: the quotient truncated toward zero (b # 0).
GoDiv(a, b) ==
    IF (a < 0) = (b < 0) THEN Abs(a) \div Abs(b) ELSE -(Abs(a) \div Abs(b))

\* Go's a % b on ints: the remainder has the sign of the dividend.
GoMod(a, b) == a - b * GoDiv(a, b)

RECURSIVE SumSeq(_)
SumSeq(s) == IF s = <<>> THEN 0 ELSE Head(s) + SumSeq(Tail(s))

\* strings.Repeat(" ", k) for k >= 0
Spaces(k) == [j \in 1..k |-> " "]

SeqsUpTo(S, k) == UNION {[1..m -> S] : m \in 0..k}

----------------------------------------------------------------------------
(* columnFormatter.columnWidths *)

\* W: the table width less the two-character gaps between the columns.
UsableWidth(tw, n) == tw - 2 * (n - 1)

\* A faulty Pins: a column is pinned whether or not it has a width already.
PinsAgain(res, cols, wpc, i) == cols[i] # 0 /\ cols[i] < wpc

\* The test of the inner loop: column i has no width yet and is capped below
\* the share wpc.
Pins(res, cols, wpc, i) == res[i] = 0 /\ cols[i] # 0 /\ cols[i] < wpc

\* adjusted after the inner loop: some column passed the test.
Adjusted(res, cols, wpc) == \E i \in 1..Len(cols) : Pins(res, cols, wpc, i)

\* One run of the inner loop: pin every unresolved column capped below wpc.
PinPass(res, cols, wpc) ==
    [i \in 1..Len(cols) |-> IF Pins(res, cols, wpc, i) THEN cols[i] ELSE res[i]]

\* count: the columns that still have no width.
Count(res) == Cardinality({i \in 1..Len(res) : res[i] = 0})

\* A faulty WidthLeft: forgets the gaps between the columns.
WidthLeftNoGaps(tw, res) == tw - SumSeq(res)

\* widthLeft: the usable width less every width already given out.
WidthLeft(tw, res) == UsableWidth(tw, Len(res)) - SumSeq(res)

\* The branch taken when every column is pinned: share out what is left.
SpreadLeft(res, widthLeft) ==
    [i \in 1..Len(res) |-> res[i] + GoDiv(widthLeft, Len(res))]

\* The `for adjusted` loop.  passes counts the runs of the inner loop.
RECURSIVE WidthLoop(_, _, _, _, _)
WidthLoop(tw, cols, res, wpc, passes) ==
    LET pinned == PinPass(res, cols, wpc) IN
    IF pinned = res
    THEN [res |-> res, wpc |-> wpc, allPinned |-> FALSE, passes |-> passes + 1]
    ELSE IF Count(pinned) = 0
    THEN [res |-> SpreadLeft(pinned, WidthLeft(tw, pinned)), wpc |-> wpc,
          allPinned |-> TRUE, passes |-> passes + 1]
    ELSE WidthLoop(tw, cols, pinned,
                   GoDiv(WidthLeft(tw, pinned), Count(pinned)), passes + 1)

\* A faulty FillRest: hands the share to every column, pinned or not.
FillRestAll(res, wpc) == [i \in 1..Len(res) |-> wpc]

\* The closing loop: every column still at 0 takes the current share.
FillRest(res, wpc) ==
    [i \in 1..Len(res) |-> IF res[i] = 0 THEN wpc ELSE res[i]]

\* The loop's outcome from the initial res (all 0) and the naive share.
WidthRun(tw, cols) ==
    WidthLoop(tw, cols, [i \in 1..Len(cols) |-> 0],
              GoDiv(UsableWidth(tw, Len(cols)), Len(cols)), 0)

\* The widths columnWidths computes when nothing is cached.
ComputeWidths(tw, cols) ==
    LET run == WidthRun(tw, cols) IN FillRest(run.res, run.wpc)

\* What a columnWidths() call returns, cache included.
CachedWidths(tw, cols, cache) ==
    IF cache # <<>> THEN cache ELSE ComputeWidths(tw, cols)

\* A call of columnWidths(): returns the cache or computes and caches.
ColumnWidths ==
    /\ widthsRet' = CachedWidths(tableWidth, columns, computedColumnWidths)
    /\ computedColumnWidths' = widthsRet'
    /\ UNCHANGED <<tableWidth, columns, fmtRow, fmtOut, fields, loop, svars, rvars>>

NoOutput == [status |-> "none", out |-> <<>>]

NeverPolled == [calls |-> 0, published |-> FALSE, ret |-> FALSE]

NotPublished == [pos |-> -1, writes |-> -1]

\* columnWidths is not being stepped through.
NoLoop == [pc |-> "none", res |-> <<>>, widthPerColumn |-> 0, passes |-> 0]

\* No paginated writer yet.
NoSink ==
    /\ viewer = "none"
    /\ watcher = "none"
    /\ doneChan = 0
    /\ closed = FALSE
    /\ writerClosed = FALSE
    /\ pipeWrites = <<>>
    /\ closePc = "idle"
    /\ closeRet = "none"
    /\ closeCalls = 0
    /\ lastIsClosed = NeverPolled
    /\ pubAt = NotPublished

\* No audit command running.
NoRun ==
    /\ pc = "none"
    /\ path = "none"
    /\ json = FALSE
    /\ perPage = 0
    /\ table = "none"
    /\ pos = 0
    /\ iterEnd = "none"
    /\ deferred = FALSE
    /\ runRet = "none"
    /\ calls = <<>>

InitWidths ==
    /\ tableWidth \in 0..MaxTableWidth
    /\ columns \in SeqsUpTo((-1)..MaxCap, MaxCols) \ {<<>>}
    /\ computedColumnWidths = <<>>
    /\ widthsRet = <<>>
    /\ fmtRow = <<>>
    /\ fmtOut = NoOutput
    /\ fields = <<>>
    /\ loop = NoLoop
    /\ NoSink
    /\ NoRun

NextWidths == ColumnWidths

SpecWidths == InitWidths /\ [][NextWidths]_vars

----------------------------------------------------------------------------
(* columnWidths step by step: the passes of the `for adjusted` loop *)

\* The inner loop of one pass; without an adjustment the outer loop is left.
PinColumns ==
    /\ loop.pc = "pin"
    /\ loop' = [pc |-> IF Adjusted(loop.res, columns, loop.widthPerColumn)
                       THEN "recount" ELSE "fill",
                res |-> PinPass(loop.res, columns, loop.widthPerColumn),
                widthPerColumn |-> loop.widthPerColumn,
                passes |-> loop.passes + 1]
    /\ UNCHANGED <<tableWidth, columns, computedColumnWidths, widthsRet, fmtRow,
                   fmtOut, fields, svars, rvars>>

\* The rest of an adjusting pass: count and widthLeft, then either the
\* spreading of widthLeft and the break, or the new share.
Recount ==
    /\ loop.pc = "recount"
    /\ loop' = IF Count(loop.res) = 0
               THEN [loop EXCEPT
                       !.pc = "fill",
                       !.res = SpreadLeft(loop.res, WidthLeft(tableWidth, loop.res))]
               ELSE [loop EXCEPT
                       !.pc = "pin",
                       !.widthPerColumn =
                           GoDiv(WidthLeft(tableWidth, loop.res), Count(loop.res))]
    /\ UNCHANGED <<tableWidth, columns, computedColumnWidths, widthsRet, fmtRow,
                   fmtOut, fields, svars, rvars>>

\* The closing loop, the cache and the return.
FillAndCache ==
    /\ loop.pc = "fill"
    /\ loop' = [loop EXCEPT !.pc = "done",
                            !.res = FillRest(loop.res, loop.widthPerColumn)]
    /\ computedColumnWidths' = loop'.res
    /\ widthsRet' = loop'.res
    /\ UNCHANGED <<tableWidth, columns, fmtRow, fmtOut, fields, svars, rvars>>

\* columnWidths() entered with nothing cached: res all 0, the naive share.
InitPin ==
    /\ tableWidth \in 0..MaxTableWidth
    /\ columns \in SeqsUpTo((-1)..MaxCap, MaxCols) \ {<<>>}
    /\ computedColumnWidths = <<>>
    /\ widthsRet = <<>>
    /\ fmtRow = <<>>
    /\ fmtOut = NoOutput
    /\ fields = <<>>
    /\ loop = [pc |-> "pin",
               res |-> [i \in 1..Len(columns) |-> 0],
               widthPerColumn |->
                   GoDiv(UsableWidth(tableWidth, Len(columns)), Len(columns)),
               passes |-> 0]
    /\ NoSink
    /\ NoRun

NextPin == PinColumns \/ Recount \/ FillAndCache

SpecPin == InitPin /\ [][NextPin]_vars

\* columnWidths is sequential code: it goes on while it has a step to take.
FairSpecPin == SpecPin /\ WF_vars(NextPin)

----------------------------------------------------------------------------
(* columnFormatter.formatRow *)

\* A faulty CellLines: forgets the line of a rest shorter than the width.
CellLinesFloor(len, width) == GoDiv(len, width)

\* The first loop's line count of one cell: len/width, plus one for a rest.
CellLines(len, width) ==
    GoDiv(len, width) + (IF GoMod(len, width) # 0 THEN 1 ELSE 0)

\* maxLinesPerCell: starts at 1, raised by every cell that needs more.
RECURSIVE MaxLinesPerCell(_, _, _)
MaxLinesPerCell(row, widths, i) ==
    IF i = 0 THEN 1
    ELSE LET before == MaxLinesPerCell(row, widths, i - 1)
             lines == CellLines(Len(row[i]), widths[i])
         IN IF lines > before THEN lines ELSE before

\* A faulty SplitCell: the rest of the cell starts one character too far.
RECURSIVE SplitCellSkip(_, _, _)
SplitCellSkip(cell, width, linesLeft) ==
    IF Len(cell) > width
    THEN <<SubSeq(cell, 1, width)>>
             \o SplitCellSkip(SubSeq(cell, width + 2, Len(cell)), width, linesLeft - 1)
    ELSE <<cell \o Spaces(width - Len(cell))>>
             \o [j \in 1..(linesLeft - 1) |-> Spaces(width)]

\* Column i of splitCells, top to bottom: full chunks while the cell is longer
\* than the width, then the rest padded with blanks, then blank lines.
RECURSIVE SplitCell(_, _, _)
SplitCell(cell, width, linesLeft) ==
    IF Len(cell) > width
    THEN <<SubSeq(cell, 1, width)>>
             \o SplitCell(SubSeq(cell, width + 1, Len(cell)), width, linesLeft - 1)
    ELSE <<cell \o Spaces(width - Len(cell))>>
             \o [j \in 1..(linesLeft - 1) |-> Spaces(width)]

\* A faulty JoinCells: the segments are joined by one blank.
RECURSIVE JoinCellsOneBlank(_)
JoinCellsOneBlank(parts) ==
    IF parts = <<>> THEN <<>>
    ELSE IF Len(parts) = 1 THEN parts[1]
    ELSE parts[1] \o <<" ">> \o JoinCellsOneBlank(Tail(parts))

\* strings.Join(parts, "  ")
RECURSIVE JoinCells(_)
JoinCells(parts) ==
    IF parts = <<>> THEN <<>>
    ELSE IF Len(parts) = 1 THEN parts[1]
    ELSE parts[1] \o <<" ", " ">> \o JoinCells(Tail(parts))

\* The string builder: line j of every column joined, each line ended by \n.
RECURSIVE BuildLines(_, _, _)
BuildLines(split, nLines, j) ==
    IF j > nLines THEN <<>>
    ELSE JoinCells([i \in 1..Len(split) |-> split[i][j]]) \o <<"\n">>
             \o BuildLines(split, nLines, j + 1)

\* Where formatRow panics: a cell with no column (index out of range), a
\* zero width (integer divide by zero) or a negative one (slice out of range).
FormatPanics(row, widths) ==
    \E i \in 1..Len(row) : i > Len(widths) \/ widths[i] <= 0

\* formatRow on a row, given the widths columnWidths returned.
FormatRowOf(row, widths) ==
    IF FormatPanics(row, widths)
    THEN [status |-> "panic", out |-> <<>>]
    ELSE LET nLines == MaxLinesPerCell(row, widths, Len(row))
             split == [i \in 1..Len(row) |-> SplitCell(row[i], widths[i], nLines)]
         IN [status |-> "ok", out |-> BuildLines(split, nLines, 1)]

Cells == SeqsUpTo(Alphabet, MaxCellLen)

\* A call of formatRow(fmtRow): takes the widths (cached on the first call of
\* columnWidths) and formats the row.
FormatRow ==
    /\ fmtOut = NoOutput
    /\ widthsRet' = CachedWidths(tableWidth, columns, computedColumnWidths)
    /\ computedColumnWidths' = widthsRet'
    /\ fmtOut' = FormatRowOf(fmtRow, widthsRet')
    /\ UNCHANGED <<tableWidth, columns, fmtRow, fields, loop, svars, rvars>>

InitFormat ==
    /\ tableWidth \in 0..MaxFormatWidth
    /\ columns \in UNION {[1..m -> FormatCaps] : m \in FormatCols}
    /\ computedColumnWidths = <<>>
    /\ widthsRet = <<>>
    /\ fmtRow \in UNION {[1..m -> Cells] : m \in FormatCols}
    /\ fmtOut = NoOutput
    /\ fields = <<>>
    /\ loop = NoLoop
    /\ NoSink
    /\ NoRun

NextFormat == ColumnWidths \/ FormatRow

SpecFormat == InitFormat /\ [][NextFormat]_vars

----------------------------------------------------------------------------
(* jsonFormatter.formatRow *)

\* A faulty JsonFormatFails: only a row that is too short is refused.
JsonFormatFailsShorter(fieldNames, rowLen) == rowLen < Len(fieldNames)

\* jsonFormatter.formatRow fails when fields and row differ in length.
JsonFormatFails(fieldNames, rowLen) == Len(fieldNames) # rowLen

\* jsonMap after the loop: every key is a field name, and a later element
\* overwrites an earlier one stored under the same name.
JsonMap(fieldNames, row) ==
    [k \in {fieldNames[i] : i \in 1..Len(row)} |->
        LET last == CHOOSE i \in 1..Len(row) :
                        /\ fieldNames[i] = k
                        /\ \A j \in 1..Len(row) : fieldNames[j] = k => j <= i
        IN  row[last]]

\* The outcome of formatRow: the error and the empty string, or the object
\* that json.Marshal writes on one line.  f.fields[i] past the end of fields
\* is an index out of range.
JsonFormatRowOf(fieldNames, row) ==
    IF JsonFormatFails(fieldNames, Len(row))
    THEN [status |-> "err", out |-> <<>>]
    ELSE IF Len(row) > Len(fieldNames)
    THEN [status |-> "panic", out |-> <<>>]
    ELSE [status |-> "ok", out |-> <<JsonMap(fieldNames, row)>>]

JsonFormatRow ==
    /\ fmtOut = NoOutput
    /\ fmtOut' = JsonFormatRowOf(fields, fmtRow)
    /\ UNCHANGED <<tableWidth, columns, computedColumnWidths, widthsRet, fmtRow,
                   fields, loop, svars, rvars>>

InitJson ==
    /\ fields \in SeqsUpTo(FieldNames, MaxFields)
    /\ fmtRow \in SeqsUpTo(JsonValues, MaxFields + 1)
    /\ fmtOut = NoOutput
    /\ tableWidth = 0
    /\ columns = <<>>
    /\ computedColumnWidths = <<>>
    /\ widthsRet = <<>>
    /\ loop = NoLoop
    /\ NoSink
    /\ NoRun

NextJson == JsonFormatRow

SpecJson == InitJson /\ [][NextJson]_vars

----------------------------------------------------------------------------
(* paginatedWriter: the pager process, its watcher and the writer's methods *)

\* The pager exits: the user quits it, it reaches the end of its input, or it
\* crashes.  Nothing in the program decides when.
ViewerExit ==
    /\ viewer = "running"
    /\ viewer' = "exited"
    /\ UNCHANGED <<watcher, doneChan, closed, writerClosed, pipeWrites, closePc,
                   closeRet, closeCalls, lastIsClosed, pubAt, fvars, rvars>>

\* The watcher's cmd.Wait() returns once the process has exited.
WatcherWake ==
    /\ watcher = "waiting"
    /\ viewer = "exited"
    /\ watcher' = "woken"
    /\ UNCHANGED <<viewer, doneChan, closed, writerClosed, pipeWrites, closePc,
                   closeRet, closeCalls, lastIsClosed, pubAt, fvars, rvars>>

\* A faulty DoneCapacity: an unbuffered channel, make(chan struct{}).
DoneCapacityNone == 1 - 1

\* Capacity of the done channel: make(chan struct{}, 1).
DoneCapacity == 1

\* The watcher's done <- struct{}{}: a send on the buffered channel, which
\* blocks while the buffer is full.
WatcherSend ==
    /\ watcher = "woken"
    /\ doneChan < DoneCapacity
    /\ doneChan' = doneChan + 1
    /\ watcher' = "finished"
    /\ pubAt' = [pos |-> pos, writes |-> Len(pipeWrites)]
    /\ UNCHANGED <<viewer, closed, writerClosed, pipeWrites, closePc, closeRet,
                   closeCalls, lastIsClosed, fvars, rvars>>

\* The signal has been published: the watcher's send is done.
Published == watcher = "finished"

\* p.writer.Write on the pipe: it fails with a broken pipe once the pager,
\* the only reader, has exited.
PipeWriteOk == viewer = "running"

\* Write(data): hands the data to p.writer.Write, whatever p.closed says.
Write(data) ==
    /\ pipeWrites' = Append(pipeWrites, [data |-> data, ok |-> PipeWriteOk])
    /\ UNCHANGED <<viewer, watcher, doneChan, closed, writerClosed, closePc,
                   closeRet, closeCalls, lastIsClosed, pubAt>>

\* A faulty IsClosedReturns: the call that receives the signal still says
\* false; only the next one says true.
IsClosedReturnsLate(wasClosed, buffered) == wasClosed

\* What IsClosed() returns: true if latched, else whether the select finds a
\* signal in the channel.
IsClosedReturns(wasClosed, buffered) == wasClosed \/ buffered > 0

\* A faulty IsClosedLatch: takes the signal but does not set p.closed.
IsClosedNoLatch(wasClosed, buffered) == wasClosed

\* p.closed after IsClosed(): set when the select received the signal.
IsClosedLatch(wasClosed, buffered) == wasClosed \/ buffered > 0

\* IsClosed(): the latch test, the non-blocking receive, the call's record.
IsClosed ==
    /\ closed' = IsClosedLatch(closed, doneChan)
    /\ doneChan' = IF ~closed /\ doneChan > 0 THEN doneChan - 1 ELSE doneChan
    /\ lastIsClosed' = [calls |-> lastIsClosed.calls + 1,
                        published |-> Published,
                        ret |-> IsClosedReturns(closed, doneChan)]
    /\ UNCHANGED <<viewer, watcher, writerClosed, pipeWrites, closePc, closeRet,
                   closeCalls, pubAt>>

\* Where Close() is after p.writer.Close(): returned with the error, returned
\* because p.closed is set, or at the receive from p.done.
CloseStep(err, wasClosed) ==
    IF err \/ wasClosed THEN "returned" ELSE "recv"

\* Close() up to its receive.  p.writer.Close() returns an error or not.
Close(err) ==
    /\ closeCalls' = closeCalls + 1
    /\ writerClosed' = (writerClosed \/ ~err)
    /\ closePc' = CloseStep(err, closed)
    /\ closeRet' = IF err THEN "err"
                   ELSE IF closePc' = "returned" THEN "nil" ELSE closeRet
    /\ UNCHANGED <<viewer, watcher, doneChan, closed, pipeWrites, lastIsClosed,
                   pubAt>>

\* Close() at <-p.done: takes the signal and returns nil.
CloseReceive ==
    /\ closePc = "recv"
    /\ doneChan > 0
    /\ doneChan' = doneChan - 1
    /\ closePc' = "returned"
    /\ closeRet' = "nil"
    /\ UNCHANGED <<viewer, watcher, closed, writerClosed, pipeWrites, closeCalls,
                   lastIsClosed, pubAt>>

\* The writer as newPaginatedWriter returns it: the pager started, the watcher
\* at cmd.Wait(), the channel empty.
NewSink ==
    /\ viewer = "running"
    /\ watcher = "waiting"
    /\ doneChan = 0
    /\ closed = FALSE
    /\ writerClosed = FALSE
    /\ pipeWrites = <<>>
    /\ closePc = "idle"
    /\ closeRet = "none"
    /\ closeCalls = 0
    /\ lastIsClosed = NeverPolled
    /\ pubAt = NotPublished

----------------------------------------------------------------------------
(* SpecSink: a paginated writer used as run uses it: writes and polls in any *)
(* order, then one Close.                                                    *)

NoFormatter ==
    /\ tableWidth = 0
    /\ columns = <<>>
    /\ computedColumnWidths = <<>>
    /\ widthsRet = <<>>
    /\ fmtRow = <<>>
    /\ fmtOut = NoOutput
    /\ fields = <<>>
    /\ loop = NoLoop

ClientWrite ==
    /\ closePc = "idle"
    /\ closeCalls = 0
    /\ Len(pipeWrites) < MaxWrites
    /\ Write(<<"row", Len(pipeWrites) + 1>>)
    /\ UNCHANGED <<fvars, rvars>>

ClientIsClosed ==
    /\ closePc = "idle"
    /\ closeCalls = 0
    /\ lastIsClosed.calls < MaxPolls
    /\ IsClosed
    /\ UNCHANGED <<fvars, rvars>>

ClientClose ==
    /\ closeCalls = 0
    /\ \E err \in BOOLEAN : Close(err)
    /\ UNCHANGED <<fvars, rvars>>

ClientCloseReceive ==
    /\ CloseReceive
    /\ UNCHANGED <<fvars, rvars>>

InitSink == NoFormatter /\ NewSink /\ NoRun

NextSink ==
    \/ ViewerExit
    \/ WatcherWake
    \/ WatcherSend
    \/ ClientWrite
    \/ ClientIsClosed
    \/ ClientClose
    \/ ClientCloseReceive

SpecSink == InitSink /\ [][NextSink]_vars

\* The watcher is a goroutine of its own: the scheduler runs it whenever it
\* can take a step, whatever the client does or leaves undone.
FairSpecSink ==
    SpecSink /\ WF_vars(WatcherWake) /\ WF_vars(WatcherSend)

----------------------------------------------------------------------------
(* The audit tables, iterAndAuditTable and AuditCommand.run *)

defaultTerminalWidth == 80
DefaultPerPage == 20

Paths == {"repo", "secret", "secret:version", "invalid"}
TerminalWidths == {0, 200}        \* what terminal.GetSize may report

\* newBaseAuditTable: the maxWidth of AUTHOR, EVENT, the middle columns,
\* IP ADDRESS and DATE.
BaseColumns(midColumns) == <<32, 22>> \o midColumns \o <<45, 22>>

\* columns() and header() of the table: the repo table adds EVENT SUBJECT,
\* which has no maxWidth.
TableColumns(t) == IF t = "repo" THEN BaseColumns(<<0>>) ELSE BaseColumns(<<>>)

TableHeader(t) ==
    IF t = "repo"
    THEN <<"AUTHOR", "EVENT", "EVENT SUBJECT", "IP ADDRESS", "DATE">>
    ELSE <<"AUTHOR", "EVENT", "IP ADDRESS", "DATE">>

\* Length of a row: actor, action, the content, the IP address, the date.
RowLength(t) == 2 + (IF t = "repo" THEN 1 ELSE 0) + 2

\* A faulty IterAndAuditTable: the version selector is looked at only after
\* the client has been created.
IterAndAuditTableLateCheck(p, clientOk, treeOk, exists) ==
    IF p = "repo"
    THEN IF ~clientOk
         THEN [err |-> "newClient", table |-> "none", calls |-> <<"newClient">>]
         ELSE IF ~treeOk
         THEN [err |-> "GetTree", table |-> "none",
               calls |-> <<"newClient", "GetTree">>]
         ELSE [err |-> "nil", table |-> "repo",
               calls |-> <<"newClient", "GetTree", "EventIterator">>]
    ELSE IF p \in {"secret", "secret:version"}
    THEN IF ~clientOk
         THEN [err |-> "newClient", table |-> "none", calls |-> <<"newClient">>]
         ELSE IF p = "secret:version"
         THEN [err |-> "ErrCannotAuditSecretVersion", table |-> "none",
               calls |-> <<"newClient">>]
         ELSE IF exists = "dir"
         THEN [err |-> "ErrCannotAuditDir", table |-> "none",
               calls |-> <<"newClient", "Exists">>]
         ELSE [err |-> "nil", table |-> "secret",
               calls |-> <<"newClient", "Exists", "EventIterator">>]
    ELSE [err |-> "ErrNoValidRepoOrSecretPath", table |-> "none", calls |-> <<>>]

\* iterAndAuditTable, given how the client's calls fare: the error, the table
\* and the calls made, in order.
IterAndAuditTable(p, clientOk, treeOk, exists) ==
    IF p = "repo"
    THEN IF ~clientOk
         THEN [err |-> "newClient", table |-> "none", calls |-> <<"newClient">>]
         ELSE IF ~treeOk
         THEN [err |-> "GetTree", table |-> "none",
               calls |-> <<"newClient", "GetTree">>]
         ELSE [err |-> "nil", table |-> "repo",
               calls |-> <<"newClient", "GetTree", "EventIterator">>]
    ELSE IF p \in {"secret", "secret:version"}
    THEN IF p = "secret:version"
         THEN [err |-> "ErrCannotAuditSecretVersion", table |-> "none",
               calls |-> <<>>]
         ELSE IF ~clientOk
         THEN [err |-> "newClient", table |-> "none", calls |-> <<"newClient">>]
         ELSE IF exists = "dir"
         THEN [err |-> "ErrCannotAuditDir", table |-> "none",
               calls |-> <<"newClient", "Exists">>]
         ELSE [err |-> "nil", table |-> "secret",
               calls |-> <<"newClient", "Exists", "EventIterator">>]
    ELSE [err |-> "ErrNoValidRepoOrSecretPath", table |-> "none", calls |-> <<>>]

\* A faulty ReturnPc: a return that skips the deferred Close.
ReturnPcNoDefer(isDeferred) == "returned"

\* Where a return (or a panic) of run leads: to the deferred Close once the
\* defer statement has run, else straight out.
ReturnPc(isDeferred) == IF isDeferred THEN "defer" ELSE "returned"

\* A faulty PrintHeader: no formatter asks for a header.
PrintHeaderNever(isJson) == FALSE

\* formatter.printHeader(): false for the json formatter, true for columns.
PrintHeader(isJson) == ~isJson

\* A faulty AfterIsClosed: the loop goes on whatever IsClosed returned.
AfterIsClosedGoOn(ret, isDeferred) == "next"

\* The loop after IsClosed(): break and return nil, or the next event.
AfterIsClosed(ret, isDeferred) == IF ret THEN ReturnPc(isDeferred) ELSE "next"

\* run up to the formatter: the perPage check, iterAndAuditTable, and the
\* formatter for cmd.json (the terminal width falls back to the default).
RunBegin ==
    /\ pc = "start"
    /\ IF perPage < 1
       THEN /\ runRet' = "err:perPage"
            /\ pc' = ReturnPc(deferred)
            /\ UNCHANGED <<table, calls, tableWidth, columns, fields>>
       ELSE \E clientOk \in BOOLEAN, treeOk \in BOOLEAN,
               exists \in {"dir", "other", "err"} :
            LET r == IterAndAuditTable(path, clientOk, treeOk, exists) IN
            /\ calls' = calls \o r.calls
            /\ table' = r.table
            /\ IF r.err # "nil"
               THEN /\ runRet' = "err:" \o r.err
                    /\ pc' = ReturnPc(deferred)
                    /\ UNCHANGED <<tableWidth, columns, fields>>
               ELSE /\ runRet' = runRet
                    /\ pc' = "newPaginatedWriter"
                    /\ IF json
                       THEN /\ fields' = TableHeader(r.table)
                            /\ UNCHANGED <<tableWidth, columns>>
                       ELSE /\ tableWidth' \in
                                   TerminalWidths \cup {defaultTerminalWidth}
                            /\ columns' = TableColumns(r.table)
                            /\ UNCHANGED fields
    /\ UNCHANGED <<computedColumnWidths, widthsRet, fmtRow, fmtOut, loop, svars,
                   path, json, perPage, pos, iterEnd, deferred>>

\* newPaginatedWriter and the defer: no pager found, the pager failing to
\* start, or the pager running with its watcher.
NewPaginatedWriter ==
    /\ pc = "newPaginatedWriter"
    /\ \E outcome \in {"ok", "errPagerNotFound", "startFailed"} :
        IF outcome = "ok"
        THEN /\ viewer' = "running"
             /\ watcher' = "waiting"
             /\ calls' = Append(calls, "pager")
             /\ deferred' = TRUE
             /\ pc' = "header"
             /\ UNCHANGED runRet
        ELSE /\ runRet' = "err:" \o outcome
             /\ pc' = ReturnPc(deferred)
             /\ UNCHANGED <<viewer, watcher, calls, deferred>>
    /\ UNCHANGED <<fvars, doneChan, closed, writerClosed, pipeWrites, closePc,
                   closeRet, closeCalls, lastIsClosed, pubAt, path, json, perPage,
                   table, pos, iterEnd>>

\* The header: formatted (the first columnWidths call) and written when the
\* formatter prints one.  formatRow returns no error; it can panic.
Header ==
    /\ pc = "header"
    /\ IF PrintHeader(json)
       THEN /\ widthsRet' = CachedWidths(tableWidth, columns, computedColumnWidths)
            /\ computedColumnWidths' = widthsRet'
            /\ IF FormatPanics(TableHeader(table), widthsRet')
               THEN /\ runRet' = "panic"
                    /\ pc' = ReturnPc(deferred)
                    /\ UNCHANGED svars
               ELSE /\ Write(<<"header">>)
                    /\ pc' = "next"
                    /\ UNCHANGED runRet
       ELSE /\ pc' = "next"
            /\ UNCHANGED <<widthsRet, computedColumnWidths, svars, runRet>>
    /\ UNCHANGED <<tableWidth, columns, fmtRow, fmtOut, fields, loop, path, json,
                   perPage,
                   table, pos, iterEnd, deferred, calls>>

\* iter.Next(): an event, iterator.Done, or an error.
LoopNext ==
    /\ pc = "next"
    /\ \/ /\ pos < MaxEvents
          /\ pos' = pos + 1
          /\ pc' = "row"
          /\ UNCHANGED <<iterEnd, runRet>>
       \/ /\ iterEnd' = "done"
          /\ runRet' = "nil"
          /\ pc' = ReturnPc(deferred)
          /\ UNCHANGED pos
       \/ /\ iterEnd' = "err"
          /\ runRet' = "err:iter"
          /\ pc' = ReturnPc(deferred)
          /\ UNCHANGED pos
    /\ UNCHANGED <<fvars, svars, path, json, perPage, table, deferred, calls>>

\* auditTable.row(event), which may fail on the event, and formatRow(row).
LoopRow ==
    /\ pc = "row"
    /\ \E rowOk \in BOOLEAN :
        IF ~rowOk
        THEN /\ runRet' = "err:row"
             /\ pc' = ReturnPc(deferred)
             /\ UNCHANGED <<widthsRet, computedColumnWidths>>
        ELSE IF json
        THEN /\ IF JsonFormatFails(fields, RowLength(table))
                THEN runRet' = "err:format" /\ pc' = ReturnPc(deferred)
                ELSE runRet' = runRet /\ pc' = "write"
             /\ UNCHANGED <<widthsRet, computedColumnWidths>>
        ELSE /\ widthsRet' = CachedWidths(tableWidth, columns, computedColumnWidths)
             /\ computedColumnWidths' = widthsRet'
             /\ IF FormatPanics([i \in 1..RowLength(table) |-> <<>>], widthsRet')
                THEN runRet' = "panic" /\ pc' = ReturnPc(deferred)
                ELSE runRet' = runRet /\ pc' = "write"
    /\ UNCHANGED <<tableWidth, columns, fmtRow, fmtOut, fields, loop, svars, path,
                   json,
                   perPage, table, pos, iterEnd, deferred, calls>>

\* fmt.Fprint(paginatedWriter, formattedRow): the error is dropped.
LoopWrite ==
    /\ pc = "write"
    /\ Write(<<"row", pos>>)
    /\ pc' = "isClosed"
    /\ UNCHANGED <<fvars, path, json, perPage, table, pos, iterEnd, deferred,
                   runRet, calls>>

\* if paginatedWriter.IsClosed() { break }, and the return nil after the loop.
LoopIsClosed ==
    /\ pc = "isClosed"
    /\ IsClosed
    /\ pc' = AfterIsClosed(lastIsClosed'.ret, deferred)
    /\ runRet' = IF pc' = "next" THEN runRet ELSE "nil"
    /\ UNCHANGED <<fvars, path, json, perPage, table, pos, iterEnd, deferred,
                   calls>>

\* The deferred paginatedWriter.Close(), its error dropped.
DeferClose ==
    /\ pc = "defer"
    /\ \E err \in BOOLEAN : Close(err)
    /\ pc' = IF closePc' = "returned" THEN "returned" ELSE "closing"
    /\ UNCHANGED <<fvars, path, json, perPage, table, pos, iterEnd, deferred,
                   runRet, calls>>

\* The deferred Close() gets the signal; run is over.
DeferCloseReceive ==
    /\ pc = "closing"
    /\ CloseReceive
    /\ pc' = "returned"
    /\ UNCHANGED <<fvars, path, json, perPage, table, pos, iterEnd, deferred,
                   runRet, calls>>

InitRun ==
    /\ NoFormatter
    /\ NoSink
    /\ pc = "start"
    /\ path \in Paths
    /\ json \in BOOLEAN
    /\ perPage \in {0, DefaultPerPage}
    /\ table = "none"
    /\ pos = 0
    /\ iterEnd = "none"
    /\ deferred = FALSE
    /\ runRet = "none"
    /\ calls = <<>>

NextRun ==
    \/ RunBegin
    \/ NewPaginatedWriter
    \/ Header
    \/ LoopNext
    \/ LoopRow
    \/ LoopWrite
    \/ LoopIsClosed
    \/ DeferClose
    \/ DeferCloseReceive
    \/ ViewerExit
    \/ WatcherWake
    \/ WatcherSend

SpecRun == InitRun /\ [][NextRun]_vars

----------------------------------------------------------------------------
(* Properties of columnWidths (SpecWidths) *)

NonNegativeCaps == \A i \in 1..Len(columns) : columns[i] >= 0

\* The naive equal share, (tableWidth - 2*(n-1)) / n.
NaiveShare == GoDiv(UsableWidth(tableWidth, Len(columns)), Len(columns))

CappedBelowShare(i) == columns[i] # 0 /\ columns[i] < NaiveShare

\* C1: for columns with maxWidth >= 0 the widths add up to the usable width
\* tableWidth - 2*(n-1), give or take n-1.
C1_SumWithinRounding ==
    (computedColumnWidths # <<>> /\ NonNegativeCaps)
        => Abs(SumSeq(computedColumnWidths)
               - UsableWidth(tableWidth, Len(columns))) <= Len(columns) - 1

\* C1 witness: three columns, one pinned and one not, and the division lost
\* some of the width.
C1_Witness ==
    /\ computedColumnWidths # <<>>
    /\ NonNegativeCaps
    /\ Len(columns) = 3
    /\ \E i \in 1..3 : CappedBelowShare(i) /\ computedColumnWidths[i] = columns[i]
    /\ \E i \in 1..3 : columns[i] = 0
    /\ SumSeq(computedColumnWidths) < UsableWidth(tableWidth, 3)

\* C2 as stated: every column capped below the naive share gets exactly its
\* maxWidth (inputs with maxWidth >= 0).
C2_Original ==
    (computedColumnWidths # <<>> /\ NonNegativeCaps)
        => \A i \in 1..Len(columns) :
               CappedBelowShare(i) => computedColumnWidths[i] = columns[i]

\* C2 amended: a column capped below the naive share gets exactly its maxWidth
\* unless the loop ended with every column pinned; it then gets its maxWidth
\* plus an equal part of the width left over (inputs with maxWidth >= 0).
C2_PinnedUnlessAllPinned ==
    (computedColumnWidths # <<>> /\ NonNegativeCaps)
        => \A i \in 1..Len(columns) :
               CappedBelowShare(i) =>
                   computedColumnWidths[i] =
                       IF WidthRun(tableWidth, columns).allPinned
                       THEN columns[i]
                            + GoDiv(UsableWidth(tableWidth, Len(columns))
                                    - SumSeq(columns), Len(columns))
                       ELSE columns[i]

\* C2 witness: a column pinned in the first pass, another pinned in a later
\* pass, and an uncapped one.
C2_Witness ==
    /\ computedColumnWidths # <<>>
    /\ NonNegativeCaps
    /\ \E i \in 1..Len(columns) : CappedBelowShare(i)
    /\ \E i \in 1..Len(columns) :
           /\ columns[i] >= NaiveShare
           /\ computedColumnWidths[i] = columns[i]
    /\ ~WidthRun(tableWidth, columns).allPinned
    /\ WidthRun(tableWidth, columns).passes >= 3

\* The table has room for one character per column besides the gaps.
RoomForAll == UsableWidth(tableWidth, Len(columns)) >= Len(columns)

\* C12: when the usable width tableWidth - 2*(n-1) is at least n, every
\* column gets a width of at least 1.
C12_WidthsPositive ==
    (computedColumnWidths # <<>> /\ RoomForAll)
        => \A i \in 1..Len(columns) : computedColumnWidths[i] >= 1

\* C16: a column whose maxWidth is zero or negative is not pinned: it gets
\* the share the loop ends with.
C16_NonPositiveCapUncapped ==
    computedColumnWidths # <<>>
        => \A i \in 1..Len(columns) :
               columns[i] <= 0 =>
                   computedColumnWidths[i] = WidthRun(tableWidth, columns).wpc

----------------------------------------------------------------------------
(* Properties of formatRow (SpecFormat) *)

\* The output read back: its lines, without the line ends.
RECURSIVE OutLines(_, _)
OutLines(out, line) ==
    IF out = <<>> THEN <<>>
    ELSE IF Head(out) = "\n" THEN <<line>> \o OutLines(Tail(out), <<>>)
    ELSE OutLines(Tail(out), Append(line, Head(out)))

\* Where column i starts in a line: the widths before it and their gaps.
ColumnOffset(widths, i) == SumSeq(SubSeq(widths, 1, i - 1)) + 2 * (i - 1)

\* Column i's segments of the lines, concatenated top to bottom.
RECURSIVE ColumnText(_, _, _)
ColumnText(lines, widths, i) ==
    IF lines = <<>> THEN <<>>
    ELSE SubSeq(Head(lines), ColumnOffset(widths, i) + 1,
                ColumnOffset(widths, i) + widths[i])
             \o ColumnText(Tail(lines), widths, i)

Ceil(a, b) == (a + b - 1) \div b

Max(S) == CHOOSE x \in S : \A y \in S : y <= x

\* C8: read back column by column, the output is each cell followed by blanks
\* only: taking the padding off gives the cell back, character by character.
C8_WrapRoundTrip ==
    fmtOut.status = "ok" =>
        \A i \in 1..Len(fmtRow) :
            LET text == ColumnText(OutLines(fmtOut.out, <<>>), widthsRet, i)
                len == Len(fmtRow[i])
            IN /\ Len(text) >= len
               /\ SubSeq(text, 1, len) = fmtRow[i]
               /\ \A k \in (len + 1)..Len(text) : text[k] = " "

\* C8 witness: a cell with a blank inside wrapped over two lines, the second
\* one padded, next to a cell shorter than its column.
C8_Witness ==
    /\ fmtOut.status = "ok"
    /\ Len(fmtRow) = 2
    /\ Len(OutLines(fmtOut.out, <<>>)) = 2
    /\ \E i \in 1..2 : /\ Len(fmtRow[i]) > widthsRet[i]
                       /\ GoMod(Len(fmtRow[i]), widthsRet[i]) # 0
                       /\ \E k \in 1..Len(fmtRow[i]) : fmtRow[i][k] = " "
    /\ \E i \in 1..2 : Len(fmtRow[i]) < widthsRet[i]

\* C9: the output has as many lines as the cell needing most, a cell of length
\* l in a column of width w needing ceil(l / w), and never fewer than one; one
\* line exactly when no cell is longer than its column.
C9_LineCount ==
    fmtOut.status = "ok" =>
        LET nLines == Len(OutLines(fmtOut.out, <<>>))
            idx == 1..Len(fmtRow)
        IN /\ nLines = Max({1} \cup {Ceil(Len(fmtRow[i]), widthsRet[i]) : i \in idx})
           /\ (\A i \in idx : Len(fmtRow[i]) <= widthsRet[i]) => nLines = 1

\* C9 witness: two cells needing different numbers of lines, the longer one
\* with a rest on its last line.
C9_Witness ==
    /\ fmtOut.status = "ok"
    /\ Len(fmtRow) = 2
    /\ Len(OutLines(fmtOut.out, <<>>)) = 3
    /\ \E i \in 1..2 : Ceil(Len(fmtRow[i]), widthsRet[i]) = 1

\* C13: jsonFormatter.formatRow returns the error and no output whenever the
\* row and the field names differ in length, whether the row is longer or
\* shorter; a row it does format has one element per field name, each stored
\* under its own name.
C13_JsonLengthMismatchFails ==
    fmtOut.status # "none" =>
        /\ Len(fmtRow) # Len(fields) =>
               fmtOut.status = "err" /\ fmtOut.out = <<>>
        /\ fmtOut.status = "ok" =>
               /\ Len(fmtRow) = Len(fields)
               /\ Len(fmtOut.out) = 1
               /\ DOMAIN fmtOut.out[1] = {fields[i] : i \in 1..Len(fields)}
               /\ \A k \in DOMAIN fmtOut.out[1] :
                      \E i \in 1..Len(fields) :
                          fields[i] = k /\ fmtOut.out[1][k] = fmtRow[i]

\* formatRow has refused a row longer than the field names.
C13_Witness ==
    /\ fmtOut.status = "err"
    /\ Len(fmtRow) > Len(fields)
    /\ Len(fields) >= 1

----------------------------------------------------------------------------
(* Properties of the paginated writer (SpecSink) *)

\* C3: once the signal is published, every IsClosed() call returns true (no
\* Close() has been called yet), and a Close() after the latch is set never
\* waits at the receive; Close() is never left at the receive with the
\* channel empty and the watcher gone.
C3_ClosedSeenThenCloseReturns ==
    /\ (lastIsClosed.calls > 0 /\ lastIsClosed.published) => lastIsClosed.ret
    /\ closed => closePc # "recv"
    /\ ~(closePc = "recv" /\ doneChan = 0 /\ Published)

\* C3 witness: IsClosed() returned true twice after the pager's exit (the
\* first call took the signal), then Close() returned nil.
C3_Witness ==
    /\ lastIsClosed.calls >= 2
    /\ lastIsClosed.published
    /\ lastIsClosed.ret
    /\ closed
    /\ doneChan = 0
    /\ closeCalls = 1
    /\ closePc = "returned"
    /\ closeRet = "nil"

\* C10: Close() has returned only if the pager process has exited: it never
\* returns while the pager is still running.
C10_CloseWaitsForViewer ==
    closePc = "returned" => viewer = "exited"

\* C11: once the latch p.closed is set, a Write hands nothing to the pipe:
\* no step adds a p.writer.Write call while closed holds.
C11_NoWriteAfterClosed ==
    [][closed => pipeWrites' = pipeWrites]_vars

----------------------------------------------------------------------------
(* Properties of AuditCommand.run (SpecRun) *)

RunOver == pc = "returned"

LoopLeft == pc \in {"defer", "closing", "returned"}

RowWrites == {i \in 1..Len(pipeWrites) : pipeWrites[i].data # <<"header">>}

\* C4: with the writer created, Close() is called once, after the return
\* statement (or panic) and before run is over, and never a second time.
C4_CloseExactlyOnce ==
    /\ closeCalls <= 1
    /\ (deferred /\ RunOver) => closeCalls = 1
    /\ (closeCalls = 1) => (deferred /\ pc \in {"closing", "returned"})

\* C4 witness: the iterator failed on the second event, and run is over with
\* Close() called once.
C4_Witness ==
    /\ RunOver
    /\ runRet = "err:iter"
    /\ pos = 1
    /\ deferred
    /\ closeCalls = 1

\* The writes of a run over k events with the pager open throughout.
ExpectedWrites(isJson, k) ==
    (IF isJson THEN <<>> ELSE <<[data |-> <<"header">>, ok |-> TRUE]>>)
        \o [i \in 1..k |-> [data |-> <<"row", i>>, ok |-> TRUE]]

\* C5: when the iterator is done after k events, every one of which gave a
\* row, and the pager is still open, the writes are the header (table mode
\* only) and then the k rows in order.
C5_WriteSequence ==
    (pc = "defer" /\ iterEnd = "done" /\ viewer = "running")
        => pipeWrites = ExpectedWrites(json, pos)

\* C5 witness: table mode, three events, the pager still open at the end.
C5_Witness ==
    /\ pc = "defer"
    /\ iterEnd = "done"
    /\ viewer = "running"
    /\ ~json
    /\ pos = 3
    /\ Len(pipeWrites) = 4

\* C6: once IsClosed() has returned true the loop is left with nil: the
\* events pulled and the rows written are those of the IsClosed() calls made.
C6_ClosedStopsLoop ==
    (lastIsClosed.calls > 0 /\ lastIsClosed.ret)
        => /\ LoopLeft
           /\ runRet = "nil"
           /\ iterEnd = "none"
           /\ pos = lastIsClosed.calls
           /\ Cardinality(RowWrites) = lastIsClosed.calls

\* C6 witness: the pager closed during the second event; run returned nil
\* after two events.
C6_Witness ==
    /\ RunOver
    /\ lastIsClosed.calls = 2
    /\ lastIsClosed.ret
    /\ pos = 2
    /\ runRet = "nil"

WriteFailed == \E i \in 1..Len(pipeWrites) : ~pipeWrites[i].ok

\* C7: after a write has failed the iterator is not asked again (no event
\* pulled, no end or error of the stream seen), and the only thing run
\* returns from there is nil.
C7_WriteFailureStopsLoop ==
    [][WriteFailed => /\ pos' = pos
                      /\ iterEnd' = iterEnd
                      /\ runRet' \in {runRet, "nil"}]_vars

\* With every maxWidth >= 0, the widths are at least 1 when there is room.
WidthsPositiveForNonNegativeCaps == NonNegativeCaps => C12_WidthsPositive


\* C14: for a secret path with a version selector, iterAndAuditTable returns
\* ErrCannotAuditSecretVersion with no client created, no remote call made
\* and no pager started.
C14_VersionRefusedBeforeClient ==
    (path = "secret:version" /\ perPage >= 1 /\ pc # "start") =>
        /\ pc = "returned"
        /\ runRet = "err:ErrCannotAuditSecretVersion"
        /\ calls = <<>>
        /\ viewer = "none"
        /\ closeCalls = 0

\* run has returned on a versioned secret path.
C14_Witness ==
    /\ path = "secret:version"
    /\ perPage >= 1
    /\ pc = "returned"
    /\ runRet = "err:ErrCannotAuditSecretVersion"

\* C15: formatRow on a row with more or fewer cells than the formatter has
\* columns returns an error instead of output.
C15_RowSizeMismatchFails ==
    (fmtOut.status # "none" /\ Len(fmtRow) # Len(columns)) =>
        fmtOut.status = "err"

\* C17: for a row with one cell per column, every line of the output is
\* sum(columnWidths) + 2*(n-1) characters long: each segment fills its
\* column and two blanks stand between neighbours.
C17_LinesFillTable ==
    (fmtOut.status = "ok" /\ Len(fmtRow) = Len(columns)) =>
        LET lines == OutLines(fmtOut.out, <<>>)
            n == Len(columns)
        IN /\ lines # <<>>
           /\ \A j \in 1..Len(lines) :
                  /\ Len(lines[j]) = SumSeq(widthsRet) + 2 * (n - 1)
                  /\ \A i \in 1..(n - 1) :
                         LET gap == ColumnOffset(widthsRet, i) + widthsRet[i]
                         IN lines[j][gap + 1] = " " /\ lines[j][gap + 2] = " "

\* C17 witness: two columns of different widths, two lines of output, cells
\* of different lengths.
C17_Witness ==
    /\ fmtOut.status = "ok"
    /\ Len(fmtRow) = 2
    /\ Len(columns) = 2
    /\ widthsRet[1] # widthsRet[2]
    /\ Len(fmtRow[1]) # Len(fmtRow[2])
    /\ Len(OutLines(fmtOut.out, <<>>)) = 2

\* The rows written after the watcher sent the signal.
RowWritesSincePublished == {i \in RowWrites : i > pubAt.writes}

\* C18: once the watcher has sent the signal, run pulls at most one more
\* event from the iterator and writes at most one more row.
C18_AtMostOneMoreEvent ==
    Published =>
        /\ pos <= pubAt.pos + 1
        /\ Cardinality(RowWritesSincePublished) <= 1

\* C18 witness: the signal was sent with events still to come; run pulled
\* one more, wrote its row, and left the loop on IsClosed().
C18_Witness ==
    /\ Published
    /\ RunOver
    /\ runRet = "nil"
    /\ iterEnd = "none"
    /\ pos = pubAt.pos + 1
    /\ pos < MaxEvents
    /\ Cardinality(RowWritesSincePublished) = 1

\* Signals sent by the watcher, and signals taken out of the channel by
\* IsClosed() (which latches p.closed) and by Close() (which returns nil
\* from its receive).
SignalsSent == IF Published THEN 1 ELSE 0

TakenByIsClosed == IF closed THEN 1 ELSE 0

TakenByClose ==
    IF closePc = "returned" /\ closeRet = "nil" /\ ~closed THEN 1 ELSE 0

\* C19: the watcher sends one signal and its send never blocks; the signal
\* is in the channel or was taken by exactly one of IsClosed() and Close();
\* and once the pager has exited the watcher finishes, whatever the client
\* calls.
C19_WatcherPublishesOnce ==
    /\ [](watcher = "woken" => doneChan < DoneCapacity)
    /\ [](/\ doneChan <= DoneCapacity
          /\ SignalsSent = doneChan + TakenByIsClosed + TakenByClose
          /\ TakenByIsClosed + TakenByClose <= 1)
    /\ [][watcher = "finished" => watcher' = "finished"]_vars
    /\ (viewer = "exited" ~> watcher = "finished")

\* C19 witness: the watcher has finished and nobody has called IsClosed()
\* or Close(): the signal waits in the channel.
C19_Witness ==
    /\ watcher = "finished"
    /\ doneChan = 1
    /\ lastIsClosed.calls = 0
    /\ closeCalls = 0

\* Taken step by step, columnWidths returns what ComputeWidths gives.
PinStepsAgreeWithComputeWidths ==
    loop.pc = "done" =>
        /\ computedColumnWidths = ComputeWidths(tableWidth, columns)
        /\ loop.passes = WidthRun(tableWidth, columns).passes

\* C20: the pinning loop ends on every input.  A pass that lets the loop go
\* on has pinned at least one column that had no width; there are at most n
\* passes for n columns; the inner loop leaves a pinned column as it is, and
\* so does the step to the next pass.
C20_PinningTerminates ==
    /\ [](loop.passes <= Len(columns))
    /\ [][(loop.pc = "pin" /\ loop'.pc = "recount")
              => Count(loop'.res) < Count(loop.res)]_vars
    /\ [][loop.pc = "pin"
              => \A i \in 1..Len(columns) :
                     loop.res[i] # 0 => loop'.res[i] = loop.res[i]]_vars
    /\ [][(loop.pc = "recount" /\ loop'.pc = "pin") => loop'.res = loop.res]_vars
    /\ <>(loop.pc = "done")

\* C20 witness: three columns pinned in three passes, one at a time.
C20_Witness ==
    /\ loop.pc = "done"
    /\ Len(columns) = 3
    /\ loop.passes = 3
    /\ \A i \in 1..3 : columns[i] > 0

====
